---- MODULE Spec2Model ----
(***************************************************************************)
(* Road to Glory Golf leaderboard proxy (src/server.js).                   *)
(*                                                                         *)
(* Three specifications share this module:                                 *)
(*   Spec       the server: startup warm-up, HTTP requests, the cache and  *)
(*              the outbound fetches, interleaved as Node's event loop     *)
(*              interleaves them (a handler runs to its await, the         *)
(*              continuation runs when the fetch promise settles);         *)
(*   SpecParse  the pure function parseLeaderboard applied to bounded      *)
(*              families of decoded JSON payloads;                         *)
(*   SpecFetch  the calls of Spec with fetchESPN taken event by event      *)
(*              (data, end, error, socket timeout), under the fairness of  *)
(*              the runtime's clock and timers.                            *)
(***************************************************************************)
EXTENDS Integers, Sequences, FiniteSets, TLC

VARIABLES
  cache,      \* server.js:115  null or the last normalized snapshot
  cacheTime,  \* server.js:116  `now` of the call that wrote the cache
  clock,      \* Date.now(), in milliseconds since process start
  listening,  \* has the server.listen callback run
  calls,      \* log of getLeaderboard calls, in start order
  lastResp,   \* the HTTP response written most recently
  raw,        \* SpecParse: the decoded payload handed to parseLeaderboard
  parsed,     \* SpecParse: what parseLeaderboard produced for raw
  requests    \* SpecFetch: the https request and promise of each call

vars == <<cache, cacheTime, clock, listening, calls, lastResp, raw, parsed,
          requests>>

(***************************************************************************)
(* Bounds.                                                                 *)
(***************************************************************************)
MaxCalls    == 2   \* getLeaderboard calls in one run
MaxScoreLen == 2   \* characters of a score string
MaxEvents   == 3   \* events in a payload of the event-selection family
MaxPlayers  == 3   \* competitors in a payload of the player-list family

(***************************************************************************)
(* JavaScript values.  A decoded JSON value is a tagged record; strings    *)
(* are sequences of one-character strings so that conversions (parseInt,   *)
(* String, toLowerCase, +) are computed character by character.            *)
(***************************************************************************)
Undef   == [t |-> "undefined"]
Null    == [t |-> "null"]
NaN     == [t |-> "nan"]
Bool(b) == [t |-> "bool", b |-> b]
Num(n)  == [t |-> "num", n |-> n]
Str(s)  == [t |-> "str", s |-> s]
Arr(a)  == [t |-> "arr", a |-> a]
Obj(o)  == [t |-> "obj", o |-> o]

\* An object literal whose Undef-valued keys are absent keys.
MkObj(f) == Obj([k \in {kk \in DOMAIN f : f[kk] # Undef} |-> f[k]])

IsNullish(v) == v.t \in {"undefined", "null"}

\* ToBoolean, as used by &&, ||, ! and ?:
Truthy(v) ==
  CASE v.t = "undefined" -> FALSE
    [] v.t = "null"      -> FALSE
    [] v.t = "nan"       -> FALSE
    [] v.t = "bool"      -> v.b
    [] v.t = "num"       -> v.n # 0
    [] v.t = "str"       -> v.s # <<>>
    [] OTHER             -> TRUE

And(a, b) == IF Truthy(a) THEN b ELSE a
Or(a, b)  == IF Truthy(a) THEN a ELSE b

\* v.k for a non-nullish v (a nullish v is a TypeError, decided by the caller)
Get(v, k) ==
  CASE v.t = "obj" -> IF k \in DOMAIN v.o THEN v.o[k] ELSE Undef
    [] v.t = "arr" -> IF k = "length" THEN Num(Len(v.a)) ELSE Undef
    [] v.t = "str" -> IF k = "length" THEN Num(Len(v.s)) ELSE Undef
    [] OTHER       -> Undef

\* v[i] for a non-nullish v and an integer i (objects here have no numeric keys)
Idx(v, i) ==
  CASE v.t = "arr" -> IF i >= 0 /\ i < Len(v.a) THEN v.a[i + 1] ELSE Undef
    [] v.t = "str" -> IF i >= 0 /\ i < Len(v.s) THEN Str(<<v.s[i + 1]>>) ELSE Undef
    [] OTHER       -> Undef

DigitChar == <<"0", "1", "2", "3", "4", "5", "6", "7", "8", "9">>

RECURSIVE DigitsOf(_)
DigitsOf(n) ==
  IF n < 10 THEN <<DigitChar[n + 1]>>
  ELSE DigitsOf(n \div 10) \o <<DigitChar[(n % 10) + 1]>>

\* Number::toString for the integers of the model
NumToStr(n) == IF n < 0 THEN <<"-">> \o DigitsOf(-n) ELSE DigitsOf(n)

\* ToString: String(v) and the string side of +
RECURSIVE ToStr(_)
RECURSIVE JoinFrom(_, _)
JoinFrom(a, i) ==
  IF i > Len(a) THEN <<>>
  ELSE (IF i > 1 THEN <<",">> ELSE <<>>)
       \o (IF IsNullish(a[i]) THEN <<>> ELSE ToStr(a[i]))
       \o JoinFrom(a, i + 1)
ToStr(v) ==
  CASE v.t = "str"       -> v.s
    [] v.t = "num"       -> NumToStr(v.n)
    [] v.t = "nan"       -> <<"N", "a", "N">>
    [] v.t = "bool"      -> IF v.b THEN <<"t", "r", "u", "e">>
                                   ELSE <<"f", "a", "l", "s", "e">>
    [] v.t = "null"      -> <<"n", "u", "l", "l">>
    [] v.t = "undefined" -> <<"u", "n", "d", "e", "f", "i", "n", "e", "d">>
    [] v.t = "arr"       -> JoinFrom(v.a, 1)
    [] OTHER             -> <<"[", "o", "b", "j", "e", "c", "t", " ",
                              "O", "b", "j", "e", "c", "t", "]">>

WhiteSpace == {" ", "\t", "\n"}

\* value of a character as a digit; 99 for a character that is no digit
DigitVal(ch) ==
  CASE ch = "0" -> 0 [] ch = "1" -> 1 [] ch = "2" -> 2 [] ch = "3" -> 3
    [] ch = "4" -> 4 [] ch = "5" -> 5 [] ch = "6" -> 6 [] ch = "7" -> 7
    [] ch = "8" -> 8 [] ch = "9" -> 9
    [] ch \in {"a", "A"} -> 10 [] ch \in {"b", "B"} -> 11
    [] ch \in {"c", "C"} -> 12 [] ch \in {"d", "D"} -> 13
    [] ch \in {"e", "E"} -> 14 [] ch \in {"f", "F"} -> 15
    [] OTHER -> 99

RECURSIVE SkipWS(_)
SkipWS(s) == IF s # <<>> /\ Head(s) \in WhiteSpace THEN SkipWS(Tail(s)) ELSE s

\* value of the longest prefix of s made of digits of the radix, acc so far
RECURSIVE Accum(_, _, _)
Accum(s, radix, acc) ==
  IF s # <<>> /\ DigitVal(Head(s)) < radix
  THEN Accum(Tail(s), radix, acc * radix + DigitVal(Head(s)))
  ELSE acc

\* parseInt(v) with no radix argument
parseInt(v) ==
  LET s0    == SkipWS(ToStr(v))
      neg   == s0 # <<>> /\ Head(s0) = "-"
      s1    == IF s0 # <<>> /\ Head(s0) \in {"-", "+"} THEN Tail(s0) ELSE s0
      hex   == Len(s1) >= 2 /\ s1[1] = "0" /\ s1[2] \in {"x", "X"}
      s2    == IF hex THEN Tail(Tail(s1)) ELSE s1
      radix == IF hex THEN 16 ELSE 10
  IN  IF s2 = <<>> \/ DigitVal(Head(s2)) >= radix THEN NaN
      ELSE Num((IF neg THEN -1 ELSE 1) * Accum(s2, radix, 0))

isNaN(n) == n.t = "nan"

UpperCase == <<"A", "B", "C", "D", "E", "F", "G", "H", "I", "J", "K", "L", "M",
               "N", "O", "P", "Q", "R", "S", "T", "U", "V", "W", "X", "Y", "Z">>
LowerCase == <<"a", "b", "c", "d", "e", "f", "g", "h", "i", "j", "k", "l", "m",
               "n", "o", "p", "q", "r", "s", "t", "u", "v", "w", "x", "y", "z">>

\* String.prototype.toLowerCase on a character sequence
toLowerCase(s) ==
  [i \in 1..Len(s) |->
     IF \E j \in 1..26 : UpperCase[j] = s[i]
     THEN LowerCase[CHOOSE j \in 1..26 : UpperCase[j] = s[i]]
     ELSE s[i]]

(***************************************************************************)
(* String literals of server.js, as character sequences.                   *)
(***************************************************************************)
STATUS_IN_PROGRESS   == <<"S","T","A","T","U","S","_","I","N","_",
                          "P","R","O","G","R","E","S","S">>
STATUS_PLAY_COMPLETE == <<"S","T","A","T","U","S","_","P","L","A","Y","_",
                          "C","O","M","P","L","E","T","E">>
STATUS_SCHEDULED     == <<"S","T","A","T","U","S","_",
                          "S","C","H","E","D","U","L","E","D">>
STATUS_FINAL         == <<"S","T","A","T","U","S","_","F","I","N","A","L">>
RoundPrefix          == <<"R","o","u","n","d"," ">>
DefaultTournament    == <<"P","G","A"," ","T","o","u","r"," ",
                          "E","v","e","n","t">>

\* what a statement that raises leaves behind instead of a value
Thrown == [t |-> "THROWN"]

\* the value parseLeaderboard's caller sees when it raises a TypeError
TypeErr == [threw |-> "TypeError"]

(***************************************************************************)
(* parseLeaderboard, server.js:36-112.                                     *)
(***************************************************************************)

\* compet.status && compet.status.type && compet.status.type.name || ''
statusNameOf(compet) ==
  LET st == Get(compet, "status")
      ty == And(st, Get(st, "type"))
  IN  Or(And(ty, Get(ty, "name")), Str(<<>>))

\* e.competitions && e.competitions[0]
firstCompetition(e) ==
  LET cs == Get(e, "competitions") IN And(cs, Idx(cs, 0))

\* mutant of isActiveEvent: a finished event counts as active too
isActiveEvent_mutFinal(e) ==
  LET compet == firstCompetition(e)
  IN  IF ~Truthy(compet) THEN FALSE
      ELSE statusNameOf(compet) \in
             {Str(STATUS_IN_PROGRESS), Str(STATUS_PLAY_COMPLETE),
              Str(<<"S","T","A","T","U","S","_","F","I","N","A","L">>)}

\* the callback of events.find, for a non-nullish e
isActiveEvent(e) ==
  LET compet == firstCompetition(e)
  IN  IF ~Truthy(compet) THEN FALSE
      ELSE statusNameOf(compet) \in
             {Str(STATUS_IN_PROGRESS), Str(STATUS_PLAY_COMPLETE)}

\* Array.prototype.find from index i: the first element the callback accepts,
\* undefined when there is none, Thrown when the callback raises on the way
RECURSIVE findActive(_, _)
findActive(a, i) ==
  IF i > Len(a) THEN Undef
  ELSE IF IsNullish(a[i]) THEN Thrown
  ELSE IF isActiveEvent(a[i]) THEN a[i]
  ELSE findActive(a, i + 1)

\* events.find(...) || events[0], for an array events
selectActiveEvent(events) ==
  LET found == findActive(events.a, 1)
  IN  IF found = Thrown THEN Thrown ELSE Or(found, Idx(events, 0))

validStatuses == {Str(STATUS_IN_PROGRESS), Str(STATUS_SCHEDULED),
                  Str(STATUS_FINAL), Str(STATUS_PLAY_COMPLETE)}

isFinishedName(statusName) ==
  statusName = Str(STATUS_FINAL) \/ statusName = Str(STATUS_PLAY_COMPLETE)

\* mutant of formatScore: the '+' of an over-par score is lost
formatScore_mutNoPlus(n) ==
  IF isNaN(n) THEN Str(<<"E">>)
  ELSE IF n.n = 0 THEN Str(<<"E">>)
  ELSE Str(ToStr(n))

\* isNaN(n) ? 'E' : n === 0 ? 'E' : n < 0 ? String(n) : '+' + n
formatScore(n) ==
  IF isNaN(n) THEN Str(<<"E">>)
  ELSE IF n.n = 0 THEN Str(<<"E">>)
  ELSE IF n.n < 0 THEN Str(ToStr(n))
  ELSE Str(<<"+">> \o ToStr(n))

\* rawScore = c.score || '0'; n = parseInt(rawScore); score = ...
scoreOf(c) == formatScore(parseInt(Or(Get(c, "score"), Str(<<"0">>))))

\* (c.status || '').toLowerCase(), Thrown when that value has no such method
athleteStatusOf(c) ==
  LET s == Or(Get(c, "status"), Str(<<>>))
  IN  IF s.t = "str" THEN Str(toLowerCase(s.s)) ELSE Thrown

positionOf(c, idx) ==
  LET athleteStatus == athleteStatusOf(c)
  IN  IF athleteStatus = Str(<<"c", "u", "t">>) THEN Str(<<"M", "C">>)
      ELSE IF athleteStatus = Str(<<"w", "d">>) THEN Str(<<"W", "D">>)
      ELSE IF Truthy(Get(c, "sortOrder")) THEN Str(ToStr(Get(c, "sortOrder")))
      ELSE Str(ToStr(Num(idx + 1)))

\* x > 0 for the values a length property holds here
GreaterThanZero(v) == v.t = "num" /\ v.n > 0

\* mutant of thruOf: the first round entry is read instead of the last
thruOf_mutFirstRound(c, isFinished) ==
  LET ls == Get(c, "linescores")
  IN  IF isFinished THEN Str(<<"F">>)
      ELSE IF Truthy(ls) /\ GreaterThanZero(Get(ls, "length"))
      THEN LET currentRound == Idx(ls, 0)
               inner        == And(currentRound, Get(currentRound, "linescores"))
           IN  IF Truthy(inner) THEN Str(ToStr(Get(inner, "length")))
               ELSE Str(<<"F">>)
      ELSE Str(<<"-", "-">>)

\* thru, lines 81-92
thruOf(c, isFinished) ==
  LET ls == Get(c, "linescores")
  IN  IF isFinished THEN Str(<<"F">>)
      ELSE IF Truthy(ls) /\ GreaterThanZero(Get(ls, "length"))
      THEN LET currentRound == Idx(ls, Get(ls, "length").n - 1)
               inner        == And(currentRound, Get(currentRound, "linescores"))
           IN  IF Truthy(inner) THEN Str(ToStr(Get(inner, "length")))
               ELSE Str(<<"F">>)
      ELSE Str(<<"-", "-">>)

\* c.athlete && c.athlete.displayName || ''
nameOf(c) ==
  LET a == Get(c, "athlete")
  IN  Or(And(a, Get(a, "displayName")), Str(<<>>))

\* the callback of competitors.map
mapCompetitor(c, idx, isFinished) ==
  IF IsNullish(c) THEN Thrown
  ELSE IF athleteStatusOf(c) = Thrown THEN Thrown
  ELSE [name     |-> nameOf(c),
        score    |-> scoreOf(c),
        thru     |-> thruOf(c, isFinished),
        position |-> positionOf(c, idx)]

\* mutant of filterNamed: nameless entries are kept
filterNamed_mutKeepAll(mapped) == mapped

\* .filter(p => p.name)
filterNamed(mapped) == SelectSeq(mapped, LAMBDA p : Truthy(p.name))

NoTournament == [status |-> "no_tournament"]

\* parseLeaderboard(espnData), run at time t
parseLeaderboard(espnData, t) ==
  IF IsNullish(espnData) THEN TypeErr
  ELSE
  LET events == Or(Get(espnData, "events"), Arr(<<>>)) IN
  IF events.t # "arr" THEN TypeErr
  ELSE
  LET activeEvent == selectActiveEvent(events) IN
  IF activeEvent = Thrown THEN TypeErr
  ELSE IF ~Truthy(activeEvent) THEN NoTournament
  ELSE
  LET compet == firstCompetition(activeEvent) IN
  IF ~Truthy(compet) THEN NoTournament
  ELSE
  LET statusName == statusNameOf(compet) IN
  IF statusName \notin validStatuses THEN NoTournament
  ELSE
  LET st          == Get(compet, "status")
      roundNum    == Or(And(st, Get(st, "period")), Num(1))
      ty          == And(st, Get(st, "type"))
      statusDesc  == Or(And(ty, Get(ty, "shortDetail")), Str(<<>>))
      isFinished  == isFinishedName(statusName)
      competitors == Or(Get(compet, "competitors"), Arr(<<>>))
  IN
  IF competitors.t # "arr" THEN TypeErr
  ELSE
  LET mapped == [i \in 1..Len(competitors.a) |->
                   mapCompetitor(competitors.a[i], i - 1, isFinished)]
  IN
  IF \E i \in 1..Len(mapped) : mapped[i] = Thrown THEN TypeErr
  ELSE
  LET players == filterNamed(mapped) IN
  IF Len(players) = 0 THEN NoTournament
  ELSE [status      |-> "ok",
        tournament  |-> Or(Get(activeEvent, "name"), Str(DefaultTournament)),
        round       |-> Str(RoundPrefix \o ToStr(roundNum)),
        roundStatus |-> statusDesc,
        players     |-> players,
        fetchedAt   |-> t]

(***************************************************************************)
(* The payloads SpecParse feeds to parseLeaderboard: decoded JSON values   *)
(* of the feed's shape (events -> competitions -> competitors ->           *)
(* athlete / linescores) with fields absent, empty or of another type.     *)
(***************************************************************************)
\* the sequences over S of length at most n
SeqsUpTo(S, n) == UNION {[1..k -> S] : k \in 0..n}

Athlete(nm) == MkObj([displayName |-> nm])

Competitor(score, status, sortOrder, linescores, athlete) ==
  MkObj([score |-> score, status |-> status, sortOrder |-> sortOrder,
         linescores |-> linescores, athlete |-> athlete])

StatusOf(nm, period, detail) ==
  MkObj([type |-> MkObj([name |-> nm, shortDetail |-> detail]), period |-> period])

Competition(status, competitors) ==
  MkObj([status |-> status, competitors |-> competitors])

Event(nm, competitions) == MkObj([name |-> nm, competitions |-> competitions])

Feed(events) == MkObj([events |-> events])

NameAl == Str(<<"A", "l">>)
NameBo == Str(<<"B", "o">>)

PlainCompetitor == Competitor(Str(<<"-", "2">>), Undef, Undef, Undef, Athlete(NameAl))

STATUS_POSTPONED == <<"S","T","A","T","U","S","_",
                      "P","O","S","T","P","O","N","E","D">>

EmptyObj == MkObj([none |-> Undef])

\* values of another type than the one the code expects at a field
WrongTyped == {Null, Num(0), Num(5), Bool(TRUE), Str(<<>>), Str(<<"a", "b">>),
               EmptyObj}

\* the feed itself, or its events field, is not what the code expects
MalformedPayloads ==
  WrongTyped \cup {Arr(<<>>)}
  \cup {Feed(v) : v \in WrongTyped \cup {Undef, Arr(<<>>)}}
  \cup {Feed(Arr(<<v>>)) : v \in WrongTyped}
  \cup {Feed(Arr(<<Event(Undef, v)>>)) : v \in WrongTyped \cup {Arr(<<>>)}}
  \cup {Feed(Arr(<<Event(Undef, Arr(<<v>>))>>)) : v \in WrongTyped}
  \cup {Feed(Arr(<<Event(Undef, Arr(<<Competition(v, Arr(<<PlainCompetitor>>))>>))>>))
          : v \in WrongTyped \cup {StatusOf(w, Undef, Undef) : w \in WrongTyped}}
  \cup {Feed(Arr(<<Event(Undef, Arr(<<Competition(
                StatusOf(Str(STATUS_IN_PROGRESS), Undef, Undef), v)>>))>>))
          : v \in WrongTyped \cup {Arr(<<>>)} \cup {Arr(<<w>>) : w \in WrongTyped}}

\* kinds of event for the selection family; an event is named by its place
EventKinds == {"in_progress", "play_complete", "scheduled", "final",
               "postponed", "no_status", "no_competitions",
               "empty_competitions", "null"}

EventOfKind(kind, place) ==
  LET nm == Str(<<"e", DigitChar[place + 1]>>)
      withStatus(st) == Event(nm, Arr(<<Competition(st, Arr(<<PlainCompetitor>>))>>))
  IN  CASE kind = "in_progress"   -> withStatus(StatusOf(Str(STATUS_IN_PROGRESS), Undef, Undef))
        [] kind = "play_complete" -> withStatus(StatusOf(Str(STATUS_PLAY_COMPLETE), Undef, Undef))
        [] kind = "scheduled"     -> withStatus(StatusOf(Str(STATUS_SCHEDULED), Undef, Undef))
        [] kind = "final"         -> withStatus(StatusOf(Str(STATUS_FINAL), Undef, Undef))
        [] kind = "postponed"     -> withStatus(StatusOf(Str(STATUS_POSTPONED), Undef, Undef))
        [] kind = "no_status"     -> withStatus(Undef)
        [] kind = "no_competitions"    -> Event(nm, Undef)
        [] kind = "empty_competitions" -> Event(nm, Arr(<<>>))
        [] OTHER                  -> Null

SelectionPayloads ==
  {Feed(Arr([i \in 1..Len(ks) |-> EventOfKind(ks[i], i)]))
     : ks \in SeqsUpTo(EventKinds, MaxEvents)}

OneEvent(statusName, period, detail, competitors) ==
  Feed(Arr(<<Event(Str(<<"O", "p", "e", "n">>),
                   Arr(<<Competition(StatusOf(Str(statusName), period, detail),
                                     competitors)>>))>>))

ScoreChars == {"-", "+", "0", "3", "5", "E", " ", "x"}

ScoreValues ==
  {Str(q) : q \in SeqsUpTo(ScoreChars, MaxScoreLen)}
  \cup {Undef, Null, Num(0), Num(5), Num(-3), Num(12), Bool(TRUE), EmptyObj,
        Str(<<"-", "1", "0">>), Str(<<"1", "2", "a">>), Str(<<"0", "x", "E">>),
        Arr(<<Num(7)>>)}

\* one competitor whose score field ranges over ScoreValues
ScorePayloads ==
  {OneEvent(STATUS_IN_PROGRESS, Num(2), Undef,
            Arr(<<Competitor(sc, Undef, Undef, Undef, ath)>>))
     : sc \in ScoreValues, ath \in {Athlete(NameAl), Undef}}

StatusValues == {Undef, Str(<<"c", "u", "t">>), Str(<<"C", "U", "T">>),
                 Str(<<"C", "u", "t">>), Str(<<"w", "d">>), Str(<<"W", "D">>),
                 Str(<<"a", "c", "t", "i", "v", "e">>), Str(<<>>), Num(1)}

SortOrderValues == {Undef, Num(0), Num(7), Str(<<"T", "3">>)}

Hole == MkObj([value |-> Num(4)])

LinescoreValues ==
  {Undef, Null, Arr(<<>>),
   Arr(<<MkObj([linescores |-> Arr(<<Hole, Hole>>)])>>),
   Arr(<<MkObj([linescores |-> Arr(<<Hole>>)]), MkObj([value |-> Num(70)])>>),
   Arr(<<MkObj([value |-> Num(70)]), MkObj([linescores |-> Arr(<<>>)])>>),
   Arr(<<MkObj([linescores |-> Num(3)])>>),
   Arr(<<Null>>),
   Str(<<"a", "b">>), Num(2), EmptyObj}

CompetitionStatusNames ==
  {STATUS_IN_PROGRESS, STATUS_SCHEDULED, STATUS_FINAL, STATUS_PLAY_COMPLETE}

\* a leading competitor, then one whose status, sort order and line scores vary
FieldPayloads ==
  {OneEvent(sn, Undef, Str(<<"R", "2">>),
            Arr(<<PlainCompetitor,
                  Competitor(Str(<<"+", "1">>), st, so, ls, Athlete(NameBo))>>))
     : sn \in CompetitionStatusNames, st \in StatusValues,
       so \in SortOrderValues, ls \in LinescoreValues}

\* kinds of competitor for the player-list family
PlayerKinds == {"al", "bo", "no_athlete", "null_athlete", "empty_name",
                "numeric_name", "null"}

CompetitorOfKind(kind) ==
  CASE kind = "al"           -> Competitor(Str(<<"0">>), Undef, Undef, Undef, Athlete(NameAl))
    [] kind = "bo"           -> Competitor(Str(<<"-", "2">>), Str(<<"c", "u", "t">>), Undef, Undef, Athlete(NameBo))
    [] kind = "no_athlete"   -> Competitor(Str(<<"3">>), Undef, Undef, Undef, Undef)
    [] kind = "null_athlete" -> Competitor(Str(<<"3">>), Undef, Undef, Undef, Null)
    [] kind = "empty_name"   -> Competitor(Str(<<"3">>), Undef, Undef, Undef, Athlete(Str(<<>>)))
    [] kind = "numeric_name" -> Competitor(Str(<<"3">>), Undef, Undef, Undef, Athlete(Num(9)))
    [] OTHER                 -> Null

PlayerListPayloads ==
  {OneEvent(sn, Num(3), Undef, Arr([i \in 1..Len(ks) |-> CompetitorOfKind(ks[i])]))
     : sn \in {STATUS_IN_PROGRESS, STATUS_FINAL},
       ks \in SeqsUpTo(PlayerKinds, MaxPlayers)}

\* parsed before parseLeaderboard has run
NotParsed == [pending |-> TRUE]

(***************************************************************************)
(* The cache and getLeaderboard, server.js:114-136.                        *)
(***************************************************************************)
\* mutant of CACHE_TTL: a zero of the factor is lost
CACHE_TTL_mutShort == 60 * 100

\* const CACHE_TTL = 60 * 1000
CACHE_TTL == 60 * 1000

\* let cache = null
NoCache == Null

\* what the fetch promise settles with
Resolved(r) == [kind |-> "resolve", raw |-> r, message |-> "none"]
Rejected(m) == [kind |-> "reject", raw |-> Undef, message |-> m]

\* Error messages of fetchESPN's rejections (server.js:27, 31, 32)
RejectMessages == {"Failed to parse ESPN response", "connect ECONNREFUSED",
                   "Request timed out"}

\* mutant of cacheHit: the boundary age counts as fresh
cacheHit_mutInclusive(c, ct, now) == c # NoCache /\ (now - ct) <= CACHE_TTL

\* if (cache && (now - cacheTime) < CACHE_TTL) return cache;
cacheHit(c, ct, now) == c # NoCache /\ (now - ct) < CACHE_TTL

\* mutant of caught: the stale snapshot is not looked at
caught_mutNoStaleFallback(c, ct, message) ==
  [cache |-> c, cacheTime |-> ct, kind |-> "return",
   value |-> [status |-> "error", message |-> message],
   refreshed |-> FALSE]

\* what the catch block leaves: the stale snapshot, or an error value
caught(c, ct, message) ==
  IF c # NoCache
  THEN [cache |-> c, cacheTime |-> ct, kind |-> "return", value |-> c,
        refreshed |-> FALSE]
  ELSE [cache |-> c, cacheTime |-> ct, kind |-> "return",
        value |-> [status |-> "error", message |-> message],
        refreshed |-> FALSE]

\* mutant of afterFetch: the error value is stored as the cache
afterFetch_mutCachesError(now, settle, fresh, c, ct) ==
  IF settle.kind = "resolve" /\ fresh # TypeErr
  THEN [cache |-> fresh, cacheTime |-> now, kind |-> "return", value |-> fresh,
        refreshed |-> TRUE]
  ELSE IF c # NoCache THEN caught(c, ct, settle.message)
  ELSE [cache |-> [status |-> "error", message |-> settle.message],
        cacheTime |-> ct, kind |-> "return",
        value |-> [status |-> "error", message |-> settle.message],
        refreshed |-> FALSE]

\* mutant of afterFetch: parseLeaderboard runs outside the try block
afterFetch_mutParseOutsideTry(now, settle, fresh, c, ct) ==
  IF settle.kind = "resolve" /\ fresh # TypeErr
  THEN [cache |-> fresh, cacheTime |-> now, kind |-> "return", value |-> fresh,
        refreshed |-> TRUE]
  ELSE IF settle.kind = "resolve"
  THEN [cache |-> c, cacheTime |-> ct, kind |-> "throw",
        value |-> [status |-> "error", message |-> "TypeError"],
        refreshed |-> FALSE]
  ELSE caught(c, ct, settle.message)

\* mutant of afterFetch: a call that started before the cached snapshot was
\* written does not store its result, and still returns it
afterFetch_mutKeepsNewer(now, settle, fresh, c, ct) ==
  IF settle.kind = "resolve" /\ fresh # TypeErr
  THEN IF c # NoCache /\ now < ct
       THEN [cache |-> c, cacheTime |-> ct, kind |-> "return", value |-> fresh,
             refreshed |-> TRUE]
       ELSE [cache |-> fresh, cacheTime |-> now, kind |-> "return",
             value |-> fresh, refreshed |-> TRUE]
  ELSE caught(c, ct, IF settle.kind = "resolve" THEN "TypeError"
                     ELSE settle.message)

\* lines 125-135 once `await fetchESPN()` has settled, for the call that read
\* `now`; fresh is what parseLeaderboard(raw) gives when the fetch resolved;
\* c and ct are cache and cacheTime at that moment.  The result is the new
\* cache and cacheTime and how the call completes.
afterFetch(now, settle, fresh, c, ct) ==
  IF settle.kind = "resolve" /\ fresh # TypeErr
  THEN [cache |-> fresh, cacheTime |-> now, kind |-> "return", value |-> fresh,
        refreshed |-> TRUE]
  ELSE \* catch (e)
       caught(c, ct, IF settle.kind = "resolve" THEN "TypeError"
                     ELSE settle.message)

\* getLeaderboard from the point where `await fetchESPN()` settles, at time t
getLeaderboardResume(now, settle, c, ct, t) ==
  afterFetch(now, settle,
             IF settle.kind = "resolve" THEN parseLeaderboard(settle.raw, t)
             ELSE TypeErr,
             c, ct)

(***************************************************************************)
(* The HTTP front door, server.js:138-181.                                 *)
(***************************************************************************)
NoBody == Null

\* try { data = await getLeaderboard(); 200 } catch (e) { 500 }
leaderboardResponse(done) ==
  IF done.kind = "return" THEN [code |-> 200, body |-> done.value]
  ELSE [code |-> 500, body |-> [status |-> "error", message |-> done.value.message]]

NoResponse == [code |-> 0, body |-> NoBody]

Methods == {"GET", "OPTIONS", "POST"}
LeaderboardUrls == {"/leaderboard", "/"}
OtherUrls == {"/favicon.ico", "/leaderboard/"}

\* the payloads the remote feed answers with in Spec
RawSamples ==
  {OneEvent(STATUS_IN_PROGRESS, Num(2), Undef,
            Arr(<<CompetitorOfKind("al"), CompetitorOfKind("bo")>>)),
   Feed(Arr(<<>>)),
   Null}

\* the instants, in milliseconds since process start, at which events happen
Instants == {0, 1, 59999, 60000}

NewCall(src, now, pc, fetched, outcome, completion, ret, resp) ==
  [src |-> src, now |-> now, pc |-> pc, fetched |-> fetched,
   outcome |-> outcome, completion |-> completion, ret |-> ret, resp |-> resp]

\* the synchronous part of getLeaderboard(), up to the return of the cached
\* snapshot or to `await fetchESPN()`
StartCall(src) ==
  LET now == clock IN
  /\ Len(calls) < MaxCalls
  /\ IF cacheHit(cache, cacheTime, now)
     THEN LET resp == IF src = "http"
                      THEN leaderboardResponse([kind |-> "return", value |-> cache])
                      ELSE NoResponse
          IN  /\ calls' = Append(calls, NewCall(src, now, "done", FALSE, "hit", "return", cache, resp))
              /\ lastResp' = IF src = "http" THEN resp ELSE lastResp
     ELSE /\ calls' = Append(calls, NewCall(src, now, "fetching", TRUE, "pending", "pending", Undef, NoResponse))
          /\ lastResp' = lastResp
  /\ UNCHANGED <<cache, cacheTime, clock, raw, parsed>>

\* server.listen callback: banner, then `await getLeaderboard()`
Listen ==
  /\ ~listening
  /\ listening' = TRUE
  /\ StartCall("warmup")
  /\ UNCHANGED requests

\* mutant of RequestOptions: the `return` after res.end() is lost and the
\* handler goes on into the leaderboard branch
RequestOptions_mutFallsThrough ==
  /\ listening
  /\ Len(calls) < MaxCalls
  /\ lastResp' = [code |-> 204, body |-> NoBody]
  /\ calls' = Append(calls,
                     IF cacheHit(cache, cacheTime, clock)
                     THEN NewCall("http", clock, "done", FALSE, "hit", "return",
                                  cache, [code |-> 204, body |-> NoBody])
                     ELSE NewCall("http", clock, "fetching", TRUE, "pending",
                                  "pending", Undef, NoResponse))
  /\ UNCHANGED <<cache, cacheTime, clock, listening, raw, parsed, requests>>

\* if (req.method === 'OPTIONS') { 204 }
RequestOptions ==
  /\ listening
  /\ \E url \in LeaderboardUrls \cup {"/health"} \cup OtherUrls :
       lastResp' = [code |-> 204, body |-> NoBody]
  /\ UNCHANGED <<cache, cacheTime, clock, listening, calls, raw, parsed, requests>>

\* req.url === '/leaderboard' || req.url === '/'
RequestLeaderboard ==
  /\ listening
  /\ \E method \in Methods \ {"OPTIONS"}, url \in LeaderboardUrls :
       StartCall("http")
  /\ UNCHANGED <<listening, requests>>

\* req.url === '/health'
RequestHealth ==
  /\ listening
  /\ \E method \in Methods \ {"OPTIONS"} :
       lastResp' = [code |-> 200, body |-> [ok |-> TRUE]]
  /\ UNCHANGED <<cache, cacheTime, clock, listening, calls, raw, parsed, requests>>

\* any other url
RequestOther ==
  /\ listening
  /\ \E method \in Methods \ {"OPTIONS"}, url \in OtherUrls :
       lastResp' = [code |-> 404, body |-> [error |-> "Not found"]]
  /\ UNCHANGED <<cache, cacheTime, clock, listening, calls, raw, parsed, requests>>

\* what the log keeps of a settled call
outcomeOf(settle, done) ==
  IF done.refreshed THEN "refreshed"
  ELSE IF settle.kind = "reject" THEN "rejected"
  ELSE "parse_threw"

\* the fetch promise of call i settles and the rest of getLeaderboard and of
\* its caller run
Settle(i, settle) ==
  /\ calls[i].pc = "fetching"
  /\ \E done \in {getLeaderboardResume(calls[i].now, settle, cache, cacheTime, clock)} :
     \E resp \in {IF calls[i].src = "http" THEN leaderboardResponse(done)
                  ELSE NoResponse} :
         /\ cache' = done.cache
         /\ cacheTime' = done.cacheTime
         /\ calls' = [calls EXCEPT ![i] =
                        NewCall(@.src, @.now, "done", TRUE, outcomeOf(settle, done),
                                done.kind, done.value, resp)]
         /\ lastResp' = IF calls[i].src = "http" THEN resp ELSE lastResp
  /\ UNCHANGED <<clock, listening, raw, parsed>>

\* res.on('end') with a body that JSON.parse accepts
FetchResolve ==
  /\ \E i \in 1..Len(calls), r \in RawSamples : Settle(i, Resolved(r))
  /\ UNCHANGED requests

\* JSON.parse failure, req.on('error'), or the 10 s timeout
FetchReject ==
  /\ \E i \in 1..Len(calls), m \in RejectMessages : Settle(i, Rejected(m))
  /\ UNCHANGED requests

\* time passes, up to the next instant at which something happens
Tick ==
  /\ \E t \in Instants : t > clock /\ clock' = t
  /\ UNCHANGED <<cache, cacheTime, listening, calls, lastResp, raw, parsed, requests>>

Init ==
  /\ cache = NoCache
  /\ cacheTime = 0
  /\ clock = 0
  /\ listening = FALSE
  /\ calls = <<>>
  /\ lastResp = NoResponse
  /\ raw = Undef
  /\ parsed = NotParsed
  /\ requests = <<>>

Next ==
  \/ Listen
  \/ RequestOptions
  \/ RequestLeaderboard
  \/ RequestHealth
  \/ RequestOther
  \/ FetchResolve
  \/ FetchReject
  \/ Tick

Spec == Init /\ [][Next]_vars

(***************************************************************************)
(* SpecParse: parseLeaderboard on each payload of the five families.       *)
(***************************************************************************)
InitParse ==
  /\ cache = NoCache
  /\ cacheTime = 0
  /\ clock = 0
  /\ listening = FALSE
  /\ calls = <<>>
  /\ lastResp = NoResponse
  /\ \/ raw \in MalformedPayloads
     \/ raw \in SelectionPayloads
     \/ raw \in ScorePayloads
     \/ raw \in FieldPayloads
     \/ raw \in PlayerListPayloads
  /\ parsed = NotParsed
  /\ requests = <<>>

Normalize ==
  /\ parsed = NotParsed
  /\ parsed' = parseLeaderboard(raw, clock)
  /\ UNCHANGED <<cache, cacheTime, clock, listening, calls, lastResp, raw,
               requests>>

NextParse == Normalize

SpecParse == InitParse /\ [][NextParse]_vars

(***************************************************************************)
(* SpecFetch: fetchESPN event by event, server.js:13-34.  Each call that   *)
(* misses the cache opens an https request; the events of that request     *)
(* (data, end, error, socket timeout) call resolve or reject, and the      *)
(* first such call settles the promise and resumes getLeaderboard.         *)
(***************************************************************************)
\* a call answered from the cache opens no request
NoRequest(answers) == [phase |-> "none", promise |-> "none", answers |-> answers]

\* https.get(...) has sent the request; the promise is pending
OpenRequest == [phase |-> "active", promise |-> "pending", answers |-> 0]

\* resolve and reject act on a pending promise only
settles(promise) == promise = "pending"

\* one call of resolve or reject for call i by an event that leaves the
\* request in `phase`; when it settles the promise, getLeaderboard and its
\* caller resume and an http caller writes its response
Deliver(i, settle, phase) ==
  IF settles(requests[i].promise)
  THEN /\ Settle(i, settle)
       /\ requests' = [requests EXCEPT ![i] =
                         [phase   |-> phase,
                          promise |-> IF settle.kind = "resolve" THEN "resolved"
                                      ELSE "rejected",
                          answers |-> IF calls[i].src = "http" THEN @.answers + 1
                                      ELSE @.answers]]
  ELSE /\ requests' = [requests EXCEPT ![i].phase = phase]
       /\ UNCHANGED <<cache, cacheTime, clock, listening, calls, lastResp,
                      raw, parsed>>

\* getLeaderboard() up to its return or to the request of fetchESPN
FetchStart(src) ==
  /\ StartCall(src)
  /\ requests' = Append(requests,
                        IF calls'[Len(calls')].pc = "fetching" THEN OpenRequest
                        ELSE NoRequest(IF src = "http" THEN 1 ELSE 0))

FetchListen ==
  /\ ~listening
  /\ listening' = TRUE
  /\ FetchStart("warmup")

FetchRequest ==
  /\ listening
  /\ \E method \in Methods \ {"OPTIONS"}, url \in LeaderboardUrls :
       FetchStart("http")
  /\ UNCHANGED listening

\* res.on('data'): a chunk arrives; activity on the socket restarts its
\* inactivity timer
ResData(i) ==
  /\ i \in 1..Len(requests)
  /\ requests[i].phase = "quiet"
  /\ requests' = [requests EXCEPT ![i].phase = "active"]
  /\ UNCHANGED <<cache, cacheTime, clock, listening, calls, lastResp, raw, parsed>>

\* time passes with no activity on the socket of request i
SocketQuiet(i) ==
  /\ i \in 1..Len(requests)
  /\ requests[i].phase = "active"
  /\ requests' = [requests EXCEPT ![i].phase = "quiet"]
  /\ UNCHANGED <<cache, cacheTime, clock, listening, calls, lastResp, raw, parsed>>

\* res.on('end'): JSON.parse(data) gives a value, or raises
ResEnd(i) ==
  /\ i \in 1..Len(requests)
  /\ requests[i].phase \in {"active", "quiet"}
  /\ \/ \E r \in RawSamples : Deliver(i, Resolved(r), "ended")
     \/ Deliver(i, Rejected("Failed to parse ESPN response"), "ended")

\* req.on('error', reject): a transport error, or the error that follows
\* req.destroy()
ReqError(i) ==
  /\ i \in 1..Len(requests)
  /\ requests[i].phase \in {"active", "quiet", "destroyed"}
  /\ Deliver(i, Rejected("connect ECONNREFUSED"), "closed")

\* the callback of req.setTimeout(10000, ...): the socket has been inactive
\* for 10 s; req.destroy(), then reject
ReqTimeout(i) ==
  /\ i \in 1..Len(requests)
  /\ requests[i].phase \in {"quiet", "ended"}
  /\ Deliver(i, Rejected("Request timed out"), "destroyed")

NextFetch ==
  \/ FetchListen
  \/ FetchRequest
  \/ \E i \in 1..MaxCalls : ResData(i)
  \/ \E i \in 1..MaxCalls : SocketQuiet(i)
  \/ \E i \in 1..MaxCalls : ResEnd(i)
  \/ \E i \in 1..MaxCalls : ReqError(i)
  \/ \E i \in 1..MaxCalls : ReqTimeout(i)

\* time passes, and a timer that is due runs its callback
SpecFetch ==
  /\ Init
  /\ [][NextFetch]_vars
  /\ \A i \in 1..MaxCalls : WF_vars(SocketQuiet(i)) /\ WF_vars(ReqTimeout(i))

(***************************************************************************)
(* Properties of the cache manager and the front door, checked under Spec. *)
(***************************************************************************)
InFlight == {i \in 1..Len(calls) : calls[i].pc = "fetching"}

\* this step is the start of a getLeaderboard call (the new call is the last)
CallStarts == Len(calls') = Len(calls) + 1

\* this step is the settling of call i's fetch
FetchSettles(i) == calls[i].pc = "fetching" /\ calls'[i].pc = "done"

RefreshFailed(c) == c.outcome \in {"rejected", "parse_threw"}

\* C1 (as claimed): in every reachable state at most one outbound fetchESPN
\* request is in flight; a call arriving while a refresh is pending starts
\* no fetch of its own.
C1_AtMostOneFetchInFlight == Cardinality(InFlight) <= 1

\* C2: a call made while a snapshot is cached and (call time - cacheTime) is
\* below 60000 ms returns exactly the cached snapshot, starts no fetch and
\* leaves cache and cacheTime unchanged; at an age of 60000 ms or more the
\* call starts a fetch.
C2_CacheHit ==
  [][CallStarts =>
       LET new == calls'[Len(calls')]
           age == clock - cacheTime
       IN  /\ (cache # NoCache /\ age < 60000) =>
                /\ new.pc = "done" /\ ~new.fetched
                /\ new.ret = cache
                /\ new.completion = "return"
                /\ cache' = cache /\ cacheTime' = cacheTime
           /\ (cache # NoCache /\ age >= 60000) =>
                /\ new.pc = "fetching" /\ new.fetched]_vars

\* a call served from a snapshot that is 59999 ms old
C2_Witness ==
  \E i \in 1..Len(calls) :
    /\ calls[i].outcome = "hit"
    /\ calls[i].ret = cache
    /\ calls[i].now - cacheTime = 59999

\* C3 (as claimed): two calls less than 60 s apart issue exactly one fetch in
\* total, and a call 60 s or more after the first issues a second fetch, for
\* any pair of calls made one after the other and whatever the outcome of
\* the first call's fetch.
C3_OneFetchPerWindowAnyOutcome ==
  [][(CallStarts /\ InFlight = {}) =>
       LET new == calls'[Len(calls')] IN
       \A i \in 1..Len(calls) :
         IF new.now - calls[i].now < 60000
         THEN Cardinality({k \in {1, 2} :
                IF k = 1 THEN calls[i].fetched ELSE new.fetched}) = 1
         ELSE new.fetched]_vars

\* C3 (amended): of two calls where the second starts after the first has
\* returned, (a) if the first call's fetch refreshed the cache and its write
\* is still in place (cacheTime is the first call's start time), the second
\* issues no fetch when it starts less than 60 s after the first started and
\* issues a second fetch when it starts 60 s or more after it; (b) if the
\* first call's fetch failed and nothing is cached, the second issues its own
\* fetch, also within 60 s.
C3_FetchCountBySuccess ==
  [][CallStarts =>
       LET new == calls'[Len(calls')] IN
       \A i \in 1..Len(calls) :
         /\ (/\ calls[i].outcome = "refreshed"
             /\ cacheTime = calls[i].now
             /\ cache # NoCache) =>
              IF new.now - calls[i].now < 60000
              THEN ~new.fetched /\ new.pc = "done"
              ELSE new.fetched
         /\ (RefreshFailed(calls[i]) /\ cache = NoCache) =>
              new.fetched /\ new.pc = "fetching"]_vars

\* a second call, started after a failed first one and within 60 s of it,
\* that issued the second fetch of the pair
C3_Witness ==
  /\ Len(calls) = 2
  /\ RefreshFailed(calls[1])
  /\ calls[1].ret.status = "error"
  /\ calls[2].fetched
  /\ calls[2].now - calls[1].now = 1

\* C4 (as claimed): when a refresh fails while a snapshot is cached, the call
\* returns that snapshot, cache and cacheTime stay as they were, and the next
\* call starts a fetch again.
C4_StaleFallbackThenRefetch ==
  [][\A i \in 1..Len(calls) :
       (FetchSettles(i) /\ RefreshFailed(calls'[i]) /\ cache # NoCache) =>
         /\ calls'[i].ret = cache
         /\ cache' = cache /\ cacheTime' = cacheTime
         /\ ~(cache' # NoCache /\ clock' - cacheTime' < 60000)]_vars

\* C5: a refresh that fails while nothing is cached returns a value of status
\* 'error' with a message and leaves cache empty and cacheTime 0; the cache
\* is always empty or a snapshot of status 'ok' or 'no_tournament'.
C5_ErrorsNeverCached ==
  /\ [](/\ cache = NoCache \/ cache.status \in {"ok", "no_tournament"}
        /\ cache = NoCache => cacheTime = 0)
  /\ [][\A i \in 1..Len(calls) :
          (FetchSettles(i) /\ RefreshFailed(calls'[i]) /\ cache = NoCache) =>
            /\ calls'[i].ret.status = "error"
            /\ calls'[i].ret.message \in RejectMessages \cup {"TypeError"}
            /\ cache' = NoCache /\ cacheTime' = 0]_vars

\* a call has returned an error value and nothing is cached
C5_Witness ==
  /\ cache = NoCache
  /\ \E i \in 1..Len(calls) :
       /\ calls[i].outcome = "rejected"
       /\ calls[i].ret = [status |-> "error", message |-> "Request timed out"]

\* C6: whatever the fetch does, getLeaderboard returns and does not throw, so
\* every request that reaches the leaderboard branch is answered 200 with a
\* body whose status is ok, no_tournament or error; no 500 is written.
C6_FetchFailureNever500 ==
  /\ lastResp.code # 500
  /\ \A i \in 1..Len(calls) :
       calls[i].pc = "done" =>
         /\ calls[i].completion = "return"
         /\ calls[i].ret.status \in {"ok", "no_tournament", "error"}
         /\ calls[i].src = "http" =>
              /\ calls[i].resp.code = 200
              /\ calls[i].resp.body = calls[i].ret

\* a request whose fetch delivered a payload that parseLeaderboard raised on
\* was answered 200 with an error body
C6_Witness ==
  \E i \in 1..Len(calls) :
    /\ calls[i].src = "http"
    /\ calls[i].outcome = "parse_threw"
    /\ calls[i].resp = [code |-> 200,
                        body |-> [status |-> "error", message |-> "TypeError"]]
    /\ lastResp = calls[i].resp

\* the calls whose fetch starts in this step
FetchStarts == {i \in 1..Len(calls') : calls'[i].pc = "fetching"} \ InFlight

\* this step writes the response of the OPTIONS, /health or not-found branch
WritesPlainResponse ==
  /\ lastResp' # lastResp
  /\ \/ lastResp'.code \in {204, 404}
     \/ lastResp' = [code |-> 200, body |-> [ok |-> TRUE]]

\* C14: cache and cacheTime change only in the success branch of a
\* getLeaderboard refresh; a fetch starts only in the step that starts a
\* getLeaderboard call, made for a request to / or /leaderboard (no response
\* is written yet) or for the warm-up, which is the first call and the only
\* one of its kind; a step that answers 204, /health or 404 starts no call
\* and no fetch and leaves cache and cacheTime unchanged.
C14_OnlyRetrievalTouchesCache ==
  /\ [](\A i \in 1..Len(calls) : calls[i].src = "warmup" <=> i = 1)
  /\ [][/\ (cache' # cache \/ cacheTime' # cacheTime) =>
            \E i \in 1..Len(calls) :
              /\ FetchSettles(i)
              /\ calls'[i].outcome = "refreshed"
              /\ cache' = calls'[i].ret
              /\ cacheTime' = calls[i].now
        /\ \A i \in FetchStarts :
              /\ CallStarts /\ i = Len(calls')
              /\ calls'[i].src \in {"warmup", "http"}
              /\ calls'[i].src = "warmup" => ~listening /\ listening'
              /\ calls'[i].src = "http" => listening /\ lastResp' = lastResp
        /\ WritesPlainResponse =>
              /\ calls' = calls
              /\ cache' = cache /\ cacheTime' = cacheTime]_vars

\* an OPTIONS request answered 204 after the warm-up refreshed the cache:
\* the warm-up is still the only call and its write is still the cache
C14_Witness ==
  /\ lastResp = [code |-> 204, body |-> NoBody]
  /\ Len(calls) = 1
  /\ calls[1].outcome = "refreshed"
  /\ cache = calls[1].ret
  /\ cacheTime = calls[1].now

\* what the Normalizer returns for the payloads of the feed, run at time t
NormalizedResults(t) ==
  {parseLeaderboard(r, t) : r \in RawSamples} \ {TypeErr}

\* the refresh of call i has succeeded and its window of 60 s is still open
InWindowOf(i) ==
  /\ calls[i].outcome = "refreshed"
  /\ clock - calls[i].now < 60000

\* C15 (as claimed): when a fetch succeeds and the Normalizer returns a
\* value, that value, 'no_tournament' included, becomes the cache and the
\* call's start time becomes cacheTime, whatever was cached before; and at
\* every instant less than 60 s after that start time the value is what a
\* call starting then is served from the cache, without a fetch.
C15_RefreshReplacesCache ==
  /\ [][\A i \in 1..Len(calls) :
          (FetchSettles(i) /\ calls'[i].outcome = "refreshed") =>
            /\ cache' \in NormalizedResults(clock)
            /\ cache' = calls'[i].ret
            /\ cacheTime' = calls[i].now]_vars
  /\ [](\A i \in 1..Len(calls) :
          InWindowOf(i) =>
            /\ cacheHit(cache, cacheTime, clock)
            /\ cache = calls[i].ret)

\* C16 (as claimed): cacheTime never decreases; every write to cacheTime, in
\* any interleaving of calls and whatever the order in which their fetches
\* complete, stores a value greater than or equal to the one it replaces.
C16_CacheTimeNeverDecreases == [][cacheTime' >= cacheTime]_vars

\* some refresh has succeeded
HasSucceeded == \E j \in 1..Len(calls) : calls[j].outcome = "refreshed"

\* the calls that return in this step
Returns ==
  {i \in 1..Len(calls') :
     /\ calls'[i].pc = "done"
     /\ i > Len(calls) \/ calls[i].pc # "done"}

\* C17: once a refresh has succeeded the cache is never empty again, and
\* from then on no getLeaderboard call returns a value of status 'error',
\* whatever fetches fail later and however the calls interleave.
C17_CacheNeverEmptied ==
  /\ [](HasSucceeded => cache # NoCache)
  /\ [][cache # NoCache => cache' # NoCache]_vars
  /\ [][\A i \in Returns :
          (HasSucceeded \/ cache # NoCache) =>
            calls'[i].ret.status \in {"ok", "no_tournament"}]_vars

\* two calls that both started on an empty cache: the first refreshed it, the
\* second's fetch failed afterwards and the call returned the snapshot
C17_Witness ==
  /\ Len(calls) = 2
  /\ calls[1].outcome = "refreshed"
  /\ calls[2].fetched /\ calls[2].now = calls[1].now
  /\ calls[2].outcome = "rejected"
  /\ calls[2].ret = cache
  /\ cache = calls[1].ret

\* C18: at the moment a getLeaderboard call returns, it returns normally
\* and its value is the snapshot the cache holds at that moment (written by
\* this call, or by another one in the cache-hit and stale-fallback cases),
\* or a value of status 'error' while the cache is empty; no call returns a
\* snapshot that has already been replaced in the cache.
C18_ReturnsCurrentCacheOrError ==
  [][\A i \in Returns :
       /\ calls'[i].completion = "return"
       /\ \/ cache' # NoCache /\ calls'[i].ret = cache'
          \/ /\ cache' = NoCache
             /\ calls'[i].ret.status = "error"]_vars

\* the warm-up's fetch was still pending when a request at 1 ms refreshed the
\* cache; the Normalizer then raised on the warm-up's payload and the warm-up
\* returned the request's snapshot
C18_Witness ==
  /\ Len(calls) = 2
  /\ calls[2].now = 1
  /\ calls[2].outcome = "refreshed"
  /\ calls[1].fetched
  /\ calls[1].outcome = "parse_threw"
  /\ calls[1].ret = calls[2].ret
  /\ cache = calls[2].ret
  /\ cache.status = "ok"

(***************************************************************************)
(* Properties of parseLeaderboard, checked under SpecParse.                *)
(***************************************************************************)
HasField(v, k) == v.t = "obj" /\ k \in DOMAIN v.o

IsSnapshot(p) == "status" \in DOMAIN p
IsOk(p) == IsSnapshot(p) /\ p.status = "ok"

\* C7 (as claimed): parseLeaderboard returns a snapshot for every payload and
\* raises for none, and returns status 'no_tournament' for every malformed
\* or empty payload.
C7_NormalizerNeverFails ==
  parsed # NotParsed =>
    /\ parsed # TypeErr
    /\ raw \in MalformedPayloads => parsed = NoTournament

\* the feed's list of events, when the payload has one made of objects
C_EventsOf(r) ==
  IF HasField(r, "events") /\ r.o.events.t = "arr" THEN r.o.events.a ELSE <<>>

C_WellFormedEvents(r) ==
  /\ HasField(r, "events") /\ r.o.events.t = "arr"
  /\ \A i \in 1..Len(r.o.events.a) : r.o.events.a[i].t = "obj"

\* the first competition of an event, read field by field
C_HasFirstCompetition(e) ==
  /\ HasField(e, "competitions")
  /\ e.o.competitions.t = "arr"
  /\ Len(e.o.competitions.a) >= 1
  /\ e.o.competitions.a[1].t = "obj"

C_StatusName(e) ==
  IF /\ C_HasFirstCompetition(e)
     /\ HasField(e.o.competitions.a[1], "status")
     /\ HasField(e.o.competitions.a[1].o.status, "type")
     /\ HasField(e.o.competitions.a[1].o.status.o.type, "name")
  THEN e.o.competitions.a[1].o.status.o.type.o.name
  ELSE Str(<<>>)

C_Matches(e) ==
  C_StatusName(e) \in {Str(STATUS_IN_PROGRESS), Str(STATUS_PLAY_COMPLETE)}

C_Accepted(e) ==
  /\ C_HasFirstCompetition(e)
  /\ C_StatusName(e) \in {Str(STATUS_IN_PROGRESS), Str(STATUS_SCHEDULED),
                          Str(STATUS_FINAL), Str(STATUS_PLAY_COMPLETE)}

\* the place of the event the claims say is selected
C_SelectedPlace(ev) ==
  LET M == {i \in 1..Len(ev) : C_Matches(ev[i])}
  IN  IF M = {} THEN 1 ELSE CHOOSE i \in M : \A j \in M : i <= j

C_Competitors(e) ==
  IF C_HasFirstCompetition(e) /\ HasField(e.o.competitions.a[1], "competitors")
     /\ e.o.competitions.a[1].o.competitors.t = "arr"
  THEN e.o.competitions.a[1].o.competitors.a
  ELSE <<>>

C_HasName(c) ==
  /\ HasField(c, "athlete")
  /\ HasField(c.o.athlete, "displayName")
  /\ c.o.athlete.o.displayName \notin {Str(<<>>), Null, Num(0), Bool(FALSE)}

RECURSIVE C_NamesFrom(_, _)
C_NamesFrom(cs, i) ==
  IF i > Len(cs) THEN <<>>
  ELSE (IF C_HasName(cs[i]) THEN <<cs[i].o.athlete.o.displayName>> ELSE <<>>)
       \o C_NamesFrom(cs, i + 1)

\* C8: every snapshot of status 'ok' that parseLeaderboard returns has a
\* non-empty players list whose entries all have a non-empty name; the
\* competitors without a display name are dropped and the others keep the
\* order of the source.
C8_OkSnapshotHasNamedPlayers ==
  (IsOk(parsed) /\ C_WellFormedEvents(raw)) =>
    LET ev == C_EventsOf(raw)
        cs == C_Competitors(ev[C_SelectedPlace(ev)])
    IN  /\ Len(parsed.players) > 0
        /\ \A i \in 1..Len(parsed.players) :
             parsed.players[i].name \notin {Str(<<>>), Undef, Null}
        /\ [i \in 1..Len(parsed.players) |-> parsed.players[i].name]
             = C_NamesFrom(cs, 1)

\* three competitors, the middle one without a name: the snapshot lists the
\* first and the third, in that order
C8_Witness ==
  /\ IsOk(parsed)
  /\ Len(C_Competitors(C_EventsOf(raw)[1])) = 3
  /\ ~C_HasName(C_Competitors(C_EventsOf(raw)[1])[2])
  /\ Len(parsed.players) = 2
  /\ parsed.players[1].name = NameBo
  /\ parsed.players[2].name = NameAl

\* C9: parseLeaderboard uses the first event, in list order, whose first
\* competition has status name STATUS_IN_PROGRESS or STATUS_PLAY_COMPLETE,
\* the first event of the list when none has, and returns no_tournament for
\* an empty list; the event is accepted only if its first competition
\* exists and has one of the four valid status names.
C9_ActiveEventSelection ==
  (parsed # NotParsed /\ C_WellFormedEvents(raw)) =>
    LET ev  == C_EventsOf(raw)
        sel == ev[C_SelectedPlace(ev)]
    IN  /\ Len(ev) = 0 => parsed = NoTournament
        /\ Len(ev) > 0 =>
             /\ selectActiveEvent(raw.o.events) = sel
             /\ IsOk(parsed) =>
                  /\ C_Accepted(sel)
                  /\ parsed.tournament =
                       (IF HasField(sel, "name") THEN sel.o.name
                        ELSE Str(DefaultTournament))
             /\ ~C_Accepted(sel) => parsed = NoTournament

\* scheduled, in progress, play complete: the second event is the one used
C9_Witness ==
  /\ IsOk(parsed)
  /\ Len(C_EventsOf(raw)) = 3
  /\ C_StatusName(C_EventsOf(raw)[1]) = Str(STATUS_SCHEDULED)
  /\ C_StatusName(C_EventsOf(raw)[2]) = Str(STATUS_IN_PROGRESS)
  /\ C_StatusName(C_EventsOf(raw)[3]) = Str(STATUS_PLAY_COMPLETE)
  /\ parsed.tournament = Str(<<"e", "2">>)

DecimalDigits == {"0", "1", "2", "3", "4", "5", "6", "7", "8", "9"}

C_IsDecimal(q) == Len(q) > 0 /\ \A i \in 1..Len(q) : q[i] \in DecimalDigits

\* the number a sequence of decimal digits denotes
RECURSIVE C_DecValue(_)
C_DecValue(q) ==
  IF q = <<>> THEN 0
  ELSE 10 * C_DecValue(SubSeq(q, 1, Len(q) - 1))
       + (CHOOSE d \in 0..9 : DigitChar[d + 1] = q[Len(q)])

\* the formatted score: 'E', or a sign and a decimal number without leading 0
C_ScoreShape(out) ==
  \/ out = <<"E">>
  \/ /\ Len(out) >= 2
     /\ out[1] \in {"+", "-"}
     /\ C_IsDecimal(Tail(out))
     /\ out[2] # "0"

\* C10: a competitor's formatted score is 'E' when the score field is
\* absent, non-numeric or parses to zero, the signed decimal string when it
\* parses to a negative integer and the '+'-prefixed decimal string when it
\* parses to a positive integer; nothing else is produced.
C10_ScoreFormatting ==
  (parsed # NotParsed /\ C_WellFormedEvents(raw) /\ C_EventsOf(raw) # <<>>) =>
    LET ev == C_EventsOf(raw)
        cs == C_Competitors(ev[C_SelectedPlace(ev)])
    IN  \A i \in 1..Len(cs) :
          cs[i].t = "obj" =>
            LET field == IF HasField(cs[i], "score") THEN cs[i].o.score ELSE Undef
                n     == parseInt(IF Truthy(field) THEN field ELSE Str(<<"0">>))
                out   == scoreOf(cs[i]).s
            IN  /\ C_ScoreShape(out)
                /\ (isNaN(n) \/ n.n = 0) <=> out = <<"E">>
                /\ (~isNaN(n) /\ n.n < 0) =>
                     out[1] = "-" /\ C_DecValue(Tail(out)) = -n.n
                /\ (~isNaN(n) /\ n.n > 0) =>
                     out[1] = "+" /\ C_DecValue(Tail(out)) = n.n
                /\ field = Undef => out = <<"E">>
                /\ (field.t = "str" /\ \A k \in 1..Len(field.s) :
                                         field.s[k] \notin DecimalDigits)
                     => out = <<"E">>
                /\ (field.t = "str" /\ C_IsDecimal(field.s)) =>
                     IF C_DecValue(field.s) = 0 THEN out = <<"E">>
                     ELSE out[1] = "+" /\ C_DecValue(Tail(out)) = C_DecValue(field.s)
                /\ (field.t = "str" /\ Len(field.s) >= 2 /\ field.s[1] = "-"
                    /\ C_IsDecimal(Tail(field.s))) =>
                     IF C_DecValue(Tail(field.s)) = 0 THEN out = <<"E">>
                     ELSE out[1] = "-"
                          /\ C_DecValue(Tail(out)) = C_DecValue(Tail(field.s))
                /\ (IsOk(parsed) /\ Len(cs) = 1) =>
                     parsed.players[1].score = Str(out)

\* the score '5' of the only competitor is served as '+5'
C10_Witness ==
  /\ IsOk(parsed)
  /\ Len(C_Competitors(C_EventsOf(raw)[1])) = 1
  /\ C_Competitors(C_EventsOf(raw)[1])[1].o.score = Str(<<"5">>)
  /\ parsed.players[1].score = Str(<<"+", "5">>)

\* a field of a competitor, undefined when the competitor has no such field
C_Field(c, k) == IF HasField(c, k) THEN c.o[k] ELSE Undef

\* v is the word in any letter case
C_EqualsAnyCase(v, lower, upper) ==
  /\ v.t = "str"
  /\ Len(v.s) = Len(lower)
  /\ \A i \in 1..Len(lower) : v.s[i] \in {lower[i], upper[i]}

\* the places, in the source list, of the competitors that have a name
RECURSIVE C_NamedPlaces(_, _)
C_NamedPlaces(cs, i) ==
  IF i > Len(cs) THEN <<>>
  ELSE (IF C_HasName(cs[i]) THEN <<i>> ELSE <<>>) \o C_NamedPlaces(cs, i + 1)

\* the position the claim gives the competitor at a place of the source list
C_ClaimedPosition(c, place) ==
  IF C_EqualsAnyCase(C_Field(c, "status"), <<"c", "u", "t">>, <<"C", "U", "T">>)
  THEN Str(<<"M", "C">>)
  ELSE IF C_EqualsAnyCase(C_Field(c, "status"), <<"w", "d">>, <<"W", "D">>)
  THEN Str(<<"W", "D">>)
  ELSE IF HasField(c, "sortOrder") THEN Str(ToStr(c.o.sortOrder))
  ELSE Str(NumToStr(place))

\* C11 (as claimed): in every snapshot of status 'ok', a player whose
\* competitor has status 'cut' in any letter case has position 'MC', one whose
\* status is 'wd' in any letter case has 'WD', whatever the sort order; every
\* other player has its competitor's provided sortOrder value as a string, or
\* (index in the source list + 1) as a string when the field is absent.
C11_PositionMapping ==
  (IsOk(parsed) /\ C_WellFormedEvents(raw)) =>
    LET ev     == C_EventsOf(raw)
        cs     == C_Competitors(ev[C_SelectedPlace(ev)])
        places == C_NamedPlaces(cs, 1)
    IN  /\ Len(places) = Len(parsed.players)
        /\ \A k \in 1..Len(places) :
             parsed.players[k].position
               = C_ClaimedPosition(cs[places[k]], places[k])

\* the competitor's line-score field and the sub-entries of its rounds have
\* the feed's types: absent, null or a list
C_TypedLinescores(c) ==
  LET ls == C_Field(c, "linescores")
  IN  \/ ls \in {Undef, Null}
      \/ /\ ls.t = "arr"
         /\ \A i \in 1..Len(ls.a) :
              \/ ls.a[i] = Null
              \/ /\ ls.a[i].t = "obj"
                 /\ \/ C_Field(ls.a[i], "linescores") \in {Undef, Null}
                    \/ C_Field(ls.a[i], "linescores").t = "arr"

\* the status name of the competition is one of the two finished ones
C_Finished(e) == C_StatusName(e) \in {Str(STATUS_FINAL), Str(STATUS_PLAY_COMPLETE)}

\* the thru value the claim gives a competitor of event e
C_ClaimedThru(c, e) ==
  LET ls == C_Field(c, "linescores")
  IN  IF C_Finished(e) THEN <<"F">>
      ELSE IF ls.t = "arr" /\ Len(ls.a) > 0
      THEN LET last == ls.a[Len(ls.a)]
           IN  IF C_Field(last, "linescores").t = "arr"
               THEN NumToStr(Len(last.o.linescores.a))
               ELSE <<"F">>
      ELSE <<"-", "-">>

C_SettledOnce ==
  [][\A i \in 1..Len(requests) :
       requests[i].promise \in {"resolved", "rejected"} =>
         /\ requests'[i].promise = requests[i].promise
         /\ requests'[i].answers = requests[i].answers
         /\ calls'[i] = calls[i]]_vars

\* one request per call at most, and exactly one response for each call made
\* for an HTTP request once the call has returned, none before
C_OneResponse ==
  /\ Len(requests) = Len(calls)
  /\ \A i \in 1..Len(requests) :
       /\ requests[i].phase = "none" <=> ~calls[i].fetched
       /\ requests[i].answers =
            (IF calls[i].src = "http" /\ calls[i].pc = "done" THEN 1 ELSE 0)
       /\ calls[i].pc = "done" <=> requests[i].promise # "pending"

\* every call that has started a fetch returns
C_CallsReturn ==
  \A i \in 1..MaxCalls :
    (i \in InFlight) ~> (i \in 1..Len(calls) /\ calls[i].pc = "done")

\* C13 (as claimed): each fetch settles exactly once, by whichever of the
\* response end, a transport error and the 10-second timeout comes first;
\* later events of the same request change nothing and there is no second
\* request within a call; hence every getLeaderboard call that starts a
\* fetch eventually returns and every HTTP request receives exactly one
\* response.
C13_FetchSettlesOnceAndCallsReturn ==
  /\ C_SettledOnce
  /\ []C_OneResponse
  /\ C_CallsReturn

====
